---- MODULE Spec2Model ----
(***************************************************************************)
(* MedLink SMS backend (backend/main.py): users, patients, message logs,   *)
(* the send_sms / delivery_report lifecycle and the analytics read side.   *)
(* Every POST handler is one action that records its request and response  *)
(* in `last`; the GET handlers write nothing, so their response is an      *)
(* operator of the state and their action leaves every variable unchanged. *)
(* Spec and SpecGateway run each request to completion.  SpecRegister is   *)
(* the users table under concurrent register requests (sync FastAPI        *)
(* handlers run on a thread pool): there the existence check and the       *)
(* commit of register are two steps.  No other handler reads or writes the *)
(* users table between a check and its commit in a way that depends on     *)
(* the interleaving: users are never updated or deleted.                   *)
(***************************************************************************)
EXTENDS Integers, Sequences, FiniteSets, TLC

VARIABLES users, patients, message_logs, inflight, last

vars == <<users, patients, message_logs, inflight, last>>

(* ------------------------------ bounds -------------------------------- *)
(* Rows the patients and message_logs tables hold together. *)
MaxRows == 4
(* Register requests in flight between their check and their commit. *)
NumWorkers == 3

(* ------------------------------ inputs -------------------------------- *)
Emails == {"ada@clinic.org", "bob@clinic.org"}
Names == {"Ada"}
Passwords == {"secret1"}
Phones == {"+15551234567"}
Texts == {"Your lab results are ready"}
ReportStatuses == {"Success", "Sent", "Failed", "Rejected", "Buffered"}

None == <<>>

(* f"ATXid_{n}" *)
ATXid(n) == <<"ATXid_", n>>

RandLo == 100000

(* The message ids stored so far. *)
UsedIds == {message_logs[i].message_id : i \in DOMAIN message_logs} \ {None}

(* The ids the gateway has handed out. *)
IssuedIds == {id \in UsedIds : id[1] = "ATXid_"}

(* random.randint(100000, 999999): the draw either repeats an id already stored or
   is new.  Ids are only ever compared for equality, so one new id stands for all
   of them: the lowest of the range not stored yet. *)
FreshId == ATXid(RandLo + Cardinality(IssuedIds))

MockIds == IssuedIds \cup {FreshId}

(* Ids a webhook can name: the stored ones and one that was never logged. *)
ReportIds == UsedIds \cup {FreshId}

(* ------------------------------ helpers ------------------------------- *)
Range(s) == {s[i] : i \in DOMAIN s}

(* query(...).filter(...).count() *)
RECURSIVE CountRows(_, _, _)
CountRows(rows, uid, statuses) ==
    IF rows = <<>> THEN 0
    ELSE (IF Head(rows).user_id = uid /\ Head(rows).status \in statuses THEN 1 ELSE 0)
         + CountRows(Tail(rows), uid, statuses)

(* pwd_context.hash: a one-way tagged digest, never the plain password. *)
hash_password(password) == <<"$5$", password>>

(* jwt.encode of {"sub": email}; signed stands for a signature made with SECRET_KEY. *)
create_access_token(email) == [sub |-> email, signed |-> TRUE]

Tokens == {create_access_token(e) : e \in Emails}

(* db.query(User).filter(User.email == email).first(): the row's id, 0 for no row. *)
UserByEmail(email) ==
    IF \E i \in DOMAIN users : users[i].email = email
    THEN CHOOSE i \in DOMAIN users : users[i].email = email
    ELSE 0

(* The authenticated user's id, 0 when the dependency raises 401. *)
get_current_user(token) ==
    IF ~token.signed THEN 0 ELSE UserByEmail(token.sub)

(* The request and the response of the handler that ran last; gateway holds the
   gateway's answers to the calls the handler made to it. *)
Reply(op, req, user, code, body, gateway) ==
    [op |-> op, req |-> req, user |-> user, code |-> code, body |-> body,
     gateway |-> gateway]

Unauthorized(op, req) == Reply(op, req, 0, 401, None, {})

RegRequests == [name : Names, email : Emails, password : Passwords]

RECURSIVE SumOver(_, _)
SumOver(f, S) ==
    IF S = {} THEN 0
    ELSE LET x == CHOOSE y \in S : TRUE IN f[x] + SumOver(f, S \ {x})

(* Register requests that passed the existence check and have not committed. *)
InflightCount == SumOver(inflight, RegRequests)

Init ==
    /\ users = <<>>
    /\ patients = <<>>
    /\ message_logs = <<>>
    /\ inflight = [r \in RegRequests |-> 0]
    /\ last = Reply("startup", None, 0, 200, None, {})

(* ------------------------------ register ------------------------------ *)
(* Column(String, unique=True): the insert is accepted only for a new email. *)
NoUniqueEmail(email) == TRUE

UniqueEmail(email) == \A i \in DOMAIN users : users[i].email # email

(* Lines 218-235 run to completion. *)
register(user_data) ==
    /\ IF UserByEmail(user_data.email) # 0
       THEN /\ users' = users
            /\ last' = Reply("register", user_data, 0, 400, "Email already registered", {})
       ELSE /\ users' = Append(users,
                   [id |-> Len(users) + 1, name |-> user_data.name,
                    email |-> user_data.email,
                    password_hash |-> hash_password(user_data.password)])
            /\ last' = Reply("register", user_data, Len(users) + 1, 200,
                             [access_token |-> create_access_token(user_data.email),
                              token_type |-> "bearer"], {})
    /\ UNCHANGED <<patients, message_logs, inflight>>

(* Lines 218-220: the existence check; a request that passes it is in flight. *)
register_check(user_data) ==
    IF UserByEmail(user_data.email) # 0
    THEN /\ last' = Reply("register", user_data, 0, 400, "Email already registered", {})
         /\ UNCHANGED <<users, patients, message_logs, inflight>>
    ELSE /\ InflightCount < NumWorkers
         /\ inflight' = [inflight EXCEPT ![user_data] = @ + 1]
         /\ UNCHANGED <<users, patients, message_logs, last>>

(* Lines 223-235: db.add / db.commit; the unique index turns a lost race into an
   IntegrityError, which the handler does not catch (a 500, nothing written). *)
register_commit(user_data) ==
    /\ inflight[user_data] > 0
    /\ inflight' = [inflight EXCEPT ![user_data] = @ - 1]
    /\ IF UniqueEmail(user_data.email)
       THEN /\ users' = Append(users,
                   [id |-> Len(users) + 1, name |-> user_data.name,
                    email |-> user_data.email,
                    password_hash |-> hash_password(user_data.password)])
            /\ last' = Reply("register", user_data, Len(users) + 1, 200,
                             [access_token |-> create_access_token(user_data.email),
                              token_type |-> "bearer"],
                             {})
       ELSE /\ users' = users
            /\ last' = Reply("register", user_data, 0, 500, "IntegrityError", {})
    /\ UNCHANGED <<patients, message_logs>>

(* ------------------------------ patients ------------------------------ *)
PatientNames == {"Pat"}

create_patient(token, patient_data) ==
    LET current_user == get_current_user(token) IN
    IF current_user = 0
    THEN /\ last' = Unauthorized("create_patient", patient_data)
         /\ UNCHANGED <<users, patients, message_logs, inflight>>
    ELSE /\ Len(patients) + Len(message_logs) < MaxRows
         /\ patients' = Append(patients,
                [id |-> Len(patients) + 1, name |-> patient_data.name,
                 phone |-> patient_data.phone, user_id |-> current_user])
         /\ last' = Reply("create_patient", patient_data, current_user, 200,
                          [id |-> Len(patients) + 1, name |-> patient_data.name,
                           phone |-> patient_data.phone],
                          {})
         /\ UNCHANGED <<users, message_logs, inflight>>

(* db.query(Patient).filter(Patient.user_id == current_user.id).all() *)
PatientsOfAnyone(uid) == patients

PatientsOf(uid) == SelectSeq(patients, LAMBDA p : p.user_id = uid)

(* The response of GET /patients: status code and body. *)
get_patients_response(token) ==
    LET current_user == get_current_user(token) IN
    IF current_user = 0 THEN [code |-> 401, body |-> <<>>]
    ELSE [code |-> 200, body |-> PatientsOf(current_user)]

get_patients(token) ==
    /\ get_patients_response(token).code \in {200, 401}
    /\ UNCHANGED vars

(* ------------------------------ send_sms ------------------------------ *)
AcceptedCode == 101

(* The mock gateway: always accepted, with a random message id. *)
mock_africastalking_send_sms(phone, message) ==
    {[raises |-> FALSE, statusCode |-> AcceptedCode, number |-> phone, messageId |-> id] :
        id \in MockIds}

(* The literal string "None", which Africa's Talking sends as the messageId of a
   recipient it rejected. *)
NoneText == <<"None">>

RejectedCodes == {403}

(* What the gateway call that replaces the mock ("Replace this with actual API call
   in production") can answer under the adapter contract send(phone, body) ->
   {providerMessageId, providerStatusCode}: accepted with a message id, rejected with
   the messageId "None" or with no messageId key, or an exception. *)
live_africastalking_send_sms(phone, message) ==
    {[raises |-> FALSE, statusCode |-> AcceptedCode, number |-> phone, messageId |-> id] :
        id \in MockIds}
    \cup {[raises |-> FALSE, statusCode |-> c, number |-> phone, messageId |-> id] :
        c \in RejectedCodes, id \in {NoneText, None}}
    \cup {[raises |-> TRUE, statusCode |-> 0, number |-> phone, messageId |-> None]}

Recipients(adapter, phone, message) ==
    IF adapter = "mock" THEN mock_africastalking_send_sms(phone, message)
    ELSE live_africastalking_send_sms(phone, message)

(* "sent" if recipient["statusCode"] == 101 else "failed" *)
InitialStatusDefault(statusCode) == "pending"

InitialStatus(statusCode) == IF statusCode = AcceptedCode THEN "sent" ELSE "failed"

(* recipient.get("messageId") *)
LoggedMessageId(recipient) == recipient.messageId

(* Patient.id == patient_id, Patient.user_id == current_user.id; 0 for no row. *)
OwnedPatientAnyOwner(patient_id, uid) ==
    IF patient_id \in DOMAIN patients THEN patient_id ELSE 0

OwnedPatient(patient_id, uid) ==
    IF patient_id \in DOMAIN patients /\ patients[patient_id].user_id = uid
    THEN patient_id ELSE 0

send_sms(token, sms_data, adapter) ==
    LET current_user == get_current_user(token)
        patient == OwnedPatient(sms_data.patient_id, current_user)
    IN
    IF current_user = 0
    THEN /\ last' = Unauthorized("send_sms", sms_data)
         /\ UNCHANGED <<users, patients, message_logs, inflight>>
    ELSE IF patient = 0
    THEN /\ last' = Reply("send_sms", sms_data, current_user, 404, "Patient not found", {})
         /\ UNCHANGED <<users, patients, message_logs, inflight>>
    ELSE \E recipient \in Recipients(adapter, patients[patient].phone, sms_data.message_text) :
         IF recipient.raises
         THEN /\ last' = Reply("send_sms", sms_data, current_user, 500,
                               "Failed to send SMS", {recipient})
              /\ UNCHANGED <<users, patients, message_logs, inflight>>
         ELSE LET message_log ==
                      [id |-> Len(message_logs) + 1,
                       user_id |-> current_user,
                       patient_id |-> patient,
                       message_text |-> sms_data.message_text,
                       status |-> InitialStatus(recipient.statusCode),
                       message_id |-> LoggedMessageId(recipient),
                       timestamp |-> Len(message_logs) + 1]
              IN
              /\ Len(patients) + Len(message_logs) < MaxRows
              /\ message_logs' = Append(message_logs, message_log)
              /\ last' = Reply("send_sms", sms_data, current_user, 200,
                               [success |-> TRUE, log_id |-> message_log.id,
                                status |-> message_log.status],
                               {recipient})
              /\ UNCHANGED <<users, patients, inflight>>

(* --------------------------- delivery_report --------------------------- *)
status_mapping_forward_only(status, before) ==
    IF before \in {"delivered", "failed"} THEN before
    ELSE IF status = "Success" THEN "delivered"
    ELSE IF status = "Sent" THEN "sent"
    ELSE IF status \in {"Failed", "Rejected"} THEN "failed"
    ELSE "unknown"

status_mapping_sent_delivers(status, before) ==
    IF status \in {"Success", "Sent"} THEN "delivered"
    ELSE IF status \in {"Failed", "Rejected"} THEN "failed"
    ELSE "unknown"

(* status_mapping.get(report.status, "unknown"); before, the row's current status,
   is not consulted. *)
status_mapping(status, before) ==
    IF status = "Success" THEN "delivered"
    ELSE IF status = "Sent" THEN "sent"
    ELSE IF status = "Failed" THEN "failed"
    ELSE IF status = "Rejected" THEN "failed"
    ELSE "unknown"

(* filter(MessageLog.message_id == report.id): a NULL message_id matches nothing. *)
MatchingAll(id) == DOMAIN message_logs

Matching(id) ==
    {i \in DOMAIN message_logs :
        message_logs[i].message_id # None /\ message_logs[i].message_id = id}

(* .first() without ORDER BY: the row the engine happens to return first. *)
AllRows(matches) == IF matches = {} THEN {} ELSE {matches}

First(matches) == {{i} : i \in matches}

delivery_report(report) ==
    IF Matching(report.id) = {}
    THEN /\ last' = Reply("delivery_report", report, 0, 200, [status |-> "not_found"], {})
         /\ UNCHANGED <<users, patients, message_logs, inflight>>
    ELSE \E message \in First(Matching(report.id)) :
         LET new_status(i) == status_mapping(report.status, message_logs[i].status)
             row == CHOOSE i \in message : TRUE
         IN
         /\ message_logs' = [i \in DOMAIN message_logs |->
                IF i \in message
                THEN [message_logs[i] EXCEPT !.status = new_status(i)]
                ELSE message_logs[i]]
         /\ last' = Reply("delivery_report", report, 0, 200,
                          [status |-> "updated", message_id |-> report.id,
                           new_status |-> new_status(row)],
                          {})
         /\ UNCHANGED <<users, patients, inflight>>

(* ------------------------------ analytics ------------------------------ *)
(* round(x, 2) of x = delivered / total * 100, in hundredths of a percent:
   nearest, a tie to the even hundredth. *)
Round2Truncating(delivered, total) == (delivered * 10000) \div total

Round2(delivered, total) ==
    LET q == (delivered * 10000) \div total
        r == (delivered * 10000) % total
    IN IF 2 * r < total THEN q
       ELSE IF 2 * r > total THEN q + 1
       ELSE IF q % 2 = 0 THEN q ELSE q + 1

(* MessageLog.status.in_(["pending", "sent"]) *)
PendingStatuses == {"pending", "sent"}

AllStatuses == {"pending", "sent", "delivered", "failed", "unknown"}

Analytics(uid) ==
    LET total_messages == CountRows(message_logs, uid, AllStatuses)
        delivered == CountRows(message_logs, uid, {"delivered"})
    IN [total_messages |-> total_messages,
        delivered |-> delivered,
        failed |-> CountRows(message_logs, uid, {"failed"}),
        pending |-> CountRows(message_logs, uid, PendingStatuses),
        delivery_rate |-> IF total_messages > 0 THEN Round2(delivered, total_messages)
                          ELSE 0]

(* The response of GET /analytics: status code and body. *)
get_analytics_response(token) ==
    LET current_user == get_current_user(token) IN
    IF current_user = 0 THEN [code |-> 401, body |-> Analytics(0)]
    ELSE [code |-> 200, body |-> Analytics(current_user)]

get_analytics(token) ==
    /\ get_analytics_response(token).code \in {200, 401}
    /\ UNCHANGED vars

(* --------------------------- specifications ---------------------------- *)
(* Every stored patient id and one that names no patient. *)
SMSRequests == [patient_id : 1 .. (Len(patients) + 1), message_text : Texts]

Common ==
    \/ \E user_data \in RegRequests : register(user_data)
    \/ \E token \in Tokens, patient_data \in [name : PatientNames, phone : Phones] :
           create_patient(token, patient_data)
    \/ \E token \in Tokens : get_patients(token)
    \/ \E report \in [id : ReportIds, status : ReportStatuses] : delivery_report(report)
    \/ \E token \in Tokens : get_analytics(token)

(* The repository as it stands: send_sms calls the mock gateway. *)
Next ==
    \/ Common
    \/ \E token \in Tokens, sms_data \in SMSRequests : send_sms(token, sms_data, "mock")

Spec == Init /\ [][Next]_vars

(* send_sms against the gateway the mock stands in for. *)
NextGateway ==
    \/ Common
    \/ \E token \in Tokens, sms_data \in SMSRequests : send_sms(token, sms_data, "live")

SpecGateway == Init /\ [][NextGateway]_vars

(* Concurrent register requests on the users table. *)
NextRegister ==
    \/ \E user_data \in RegRequests : register_check(user_data)
    \/ \E user_data \in RegRequests : register_commit(user_data)

SpecRegister == Init /\ [][NextRegister]_vars

(* ------------------------------- claims -------------------------------- *)
LogIds == DOMAIN message_logs

(* Rows of message_logs whose provider message id is the given one. *)
LogsWithId(id) == {i \in LogIds : message_logs[i].message_id = id}

IsSend(r) == r.op = "send_sms"
IsReport(r) == r.op = "delivery_report"

(* C1: after a send_sms that reached the gateway and logged, the new MessageLog is
   'sent' with a non-null provider message id when the gateway's status code was 101,
   and 'failed' with a null provider message id when the code was anything else. *)
C1_SendStatusAndId ==
    (IsSend(last) /\ last.code = 200) =>
        LET log == message_logs[last.body.log_id] IN
        \A recipient \in last.gateway :
            IF recipient.statusCode = 101
            THEN log.status = "sent" /\ log.message_id # None
            ELSE log.status = "failed" /\ log.message_id = None

(* The fixed table of the delivery report statuses. *)
ReportedToStatus(reported) ==
    CASE reported = "Success" -> "delivered"
      [] reported = "Sent" -> "sent"
      [] reported \in {"Failed", "Rejected"} -> "failed"
      [] OTHER -> "unknown"

(* C2: a delivery report whose id matches a stored log leaves a matched log with the
   status the fixed table gives for the reported status, whatever status the log had,
   and answers with that status. *)
C2_ReportOverwrites ==
    [][(IsReport(last') /\ LogsWithId(last'.req.id) # {}) =>
          /\ last'.body.status = "updated"
          /\ last'.body.new_status = ReportedToStatus(last'.req.status)
          /\ \E i \in LogsWithId(last'.req.id) :
                message_logs'[i].status = ReportedToStatus(last'.req.status)]_vars

C2_Witness ==
    /\ IsReport(last)
    /\ last.req.status = "Success"
    /\ last.body.status = "updated"
    /\ last.body.new_status = "delivered"
    /\ \E i \in LogsWithId(last.req.id) : message_logs[i].status = "delivered"

(* C3: a delivery report whose id matches no stored log answers 'not_found' with a
   success code and changes no user, patient or message log. *)
C3_UnknownIdNotFound ==
    [][(IsReport(last') /\ LogsWithId(last'.req.id) = {}) =>
          /\ last'.code = 200
          /\ last'.body.status = "not_found"
          /\ UNCHANGED <<users, patients, message_logs>>]_vars

C3_Witness ==
    /\ IsReport(last)
    /\ last.body.status = "not_found"
    /\ message_logs # <<>>
    /\ LogsWithId(last.req.id) = {}

(* C4 as stated: once a log is 'delivered' or 'failed', no step changes its status. *)
C4_ForwardOnly ==
    [][\A i \in LogIds :
          message_logs[i].status \in {"delivered", "failed"} =>
              message_logs'[i].status = message_logs[i].status]_vars

(* C4 as amended: a stored log's status changes only in a delivery report naming its
   provider message id, which overwrites it with the table's value whatever it was
   before (terminal or not); no other step changes a stored log's status. *)
C4_StatusChangesOnlyByReport ==
    [][\A i \in LogIds :
          message_logs'[i].status # message_logs[i].status =>
              /\ IsReport(last')
              /\ message_logs[i].message_id = last'.req.id
              /\ message_logs'[i].status = ReportedToStatus(last'.req.status)]_vars

C4_Witness ==
    /\ IsReport(last)
    /\ last.body.status = "updated"
    /\ last.req.status \in {"Failed", "Rejected"}
    /\ \E i \in LogsWithId(last.req.id) : message_logs[i].status = "failed"
    /\ \E j \in LogIds : message_logs[j].status = "delivered"

(* The user a token belongs to (0: none). *)
TokenUser(token) ==
    IF \E u \in DOMAIN users : users[u].email = token.sub
    THEN CHOOSE u \in DOMAIN users : users[u].email = token.sub
    ELSE 0

(* C5, list: GET /patients of a user never returns a patient of another user. *)
C5_ListIsolated ==
    \A token \in Tokens :
        \A p \in Range(get_patients_response(token).body) :
            TokenUser(token) # 0 /\ patients[p.id].user_id = TokenUser(token)

(* C5, send: send_sms of an authenticated user naming a patient of another user
   answers 404, hands nothing to the gateway and stores no log. *)
C5_SendStep ==
    (/\ IsSend(last')
     /\ last'.user # 0
     /\ last'.req.patient_id \in DOMAIN patients
     /\ patients[last'.req.patient_id].user_id # last'.user) =>
        /\ last'.code = 404
        /\ last'.gateway = {}
        /\ message_logs' = message_logs

(* C5: users never see or message each other's patients. *)
C5_Isolation == []C5_ListIsolated /\ [][C5_SendStep]_vars

C5_Witness ==
    /\ IsSend(last)
    /\ last.code = 404
    /\ last.user # 0
    /\ last.req.patient_id \in DOMAIN patients
    /\ patients[last.req.patient_id].user_id # last.user
    /\ \E token \in Tokens :
          /\ TokenUser(token) = patients[last.req.patient_id].user_id
          /\ get_patients_response(token).body # <<>>

(* C6: every log references a stored patient and a stored user, the patient's owner
   is the log's user, and every patient references a stored user. *)
C6_ReferentialIntegrity ==
    /\ \A i \in LogIds :
          /\ message_logs[i].patient_id \in DOMAIN patients
          /\ message_logs[i].user_id \in DOMAIN users
          /\ patients[message_logs[i].patient_id].id = message_logs[i].patient_id
          /\ users[message_logs[i].user_id].id = message_logs[i].user_id
          /\ patients[message_logs[i].patient_id].user_id = message_logs[i].user_id
    /\ \A p \in DOMAIN patients :
          /\ patients[p].user_id \in DOMAIN users
          /\ users[patients[p].user_id].id = patients[p].user_id

C6_Witness ==
    \E i, j \in LogIds :
        /\ message_logs[i].user_id # message_logs[j].user_id
        /\ message_logs[i].patient_id # message_logs[j].patient_id

IsRegister(r) == r.op = "register"

EmailStored(email) == \E u \in DOMAIN users : users[u].email = email

C7_UniqueEmails ==
    \A u, v \in DOMAIN users : users[u].email = users[v].email => u = v

(* One step of a register request: its check admits it, its check refuses it, or
   its commit answers. *)
C7_RegisterStep ==
    LET admitted == {r \in RegRequests : inflight'[r] > inflight[r]}
        committed == {r \in RegRequests : inflight'[r] < inflight[r]}
    IN
    \* the check admits a request only when it does not find the email
    /\ admitted # {} =>
          /\ \A r \in admitted : ~EmailStored(r.email)
          /\ users' = users /\ last' = last
    \* the check that finds the email refuses with 400 and writes nothing
    /\ (admitted = {} /\ committed = {}) =>
          /\ IsRegister(last') /\ last'.code = 400
          /\ EmailStored(last'.req.email)
          /\ users' = users
    \* the commit appends the row of a new email and otherwise fails, writing nothing
    /\ committed # {} =>
          /\ IsRegister(last') /\ committed = {last'.req}
          /\ IF EmailStored(last'.req.email)
             THEN last'.code \notin {200, 400} /\ users' = users
             ELSE /\ last'.code = 200
                  /\ Len(users') = Len(users) + 1
                  /\ SubSeq(users', 1, Len(users)) = users
                  /\ users'[Len(users')].email = last'.req.email

(* C7: registering an email the existence check finds is refused with 400; no failed
   registration writes a row or changes one (a request that lost the race to a
   concurrent one fails at its commit); and in every state, also after register
   requests for one email interleaved, no two user rows share an email. *)
C7_DuplicateEmail == []C7_UniqueEmails /\ [][C7_RegisterStep]_vars

C7_Witness ==
    /\ IsRegister(last)
    /\ last.code = 500
    /\ Cardinality({u \in DOMAIN users : users[u].email = last.req.email}) = 1

LogsOf(u, statuses) ==
    {i \in LogIds : message_logs[i].user_id = u /\ message_logs[i].status \in statuses}

(* delivered / total * 100 to two decimals, in hundredths: the hundredth nearest. *)
IsRate(rate, delivered, total) ==
    IF total = 0 THEN rate = 0
    ELSE /\ 2 * (rate * total - delivered * 10000) <= total
         /\ 2 * (delivered * 10000 - rate * total) <= total
         /\ (delivered = total => rate = 10000)

(* C8: the analytics of a user count that user's logs only: total, delivered, failed,
   pending (the 'sent' ones), and the delivery rate is 0 without logs and otherwise
   delivered / total * 100 rounded to two decimals. *)
C8_Analytics ==
    \A token \in Tokens :
        LET u == TokenUser(token)
            a == get_analytics_response(token)
        IN u # 0 =>
            /\ a.code = 200
            /\ a.body.total_messages = Cardinality({i \in LogIds : message_logs[i].user_id = u})
            /\ a.body.delivered = Cardinality(LogsOf(u, {"delivered"}))
            /\ a.body.failed = Cardinality(LogsOf(u, {"failed"}))
            /\ a.body.pending = Cardinality(LogsOf(u, {"sent"}))
            /\ IsRate(a.body.delivery_rate, a.body.delivered, a.body.total_messages)

C8_Witness ==
    \E t1, t2 \in Tokens :
        /\ TokenUser(t1) # 0 /\ TokenUser(t2) # 0
        /\ get_analytics_response(t1).body.total_messages = 1
        /\ get_analytics_response(t1).body.delivery_rate = 10000
        /\ get_analytics_response(t2).body.total_messages = 1
        /\ get_analytics_response(t2).body.failed = 1
        /\ get_analytics_response(t2).body.delivery_rate = 0

(* C9: no log is ever stored as 'pending': a log is created 'sent' or 'failed', and
   every stored log is 'sent', 'delivered', 'failed' or 'unknown'. *)
C9_NeverPending ==
    /\ \A i \in LogIds :
          message_logs[i].status \in {"sent", "delivered", "failed", "unknown"}
    /\ (IsSend(last) /\ last.code = 200) =>
          /\ last.body.log_id = Len(message_logs)
          /\ message_logs[last.body.log_id].status \in {"sent", "failed"}
          /\ last.body.status = message_logs[last.body.log_id].status

C9_Witness ==
    /\ \E i \in LogIds : message_logs[i].status = "unknown"
    /\ IsSend(last)
    /\ last.code = 200

(* C10: a delivery report creates and deletes no row, changes no user and no patient,
   and changes at most one message log, in its status field only; the changed log
   carries the reported provider message id. *)
C10_ReportFrame ==
    [][IsReport(last') =>
          /\ users' = users
          /\ patients' = patients
          /\ DOMAIN message_logs' = LogIds
          /\ Cardinality({i \in LogIds : message_logs'[i] # message_logs[i]}) <= 1
          /\ \A i \in LogIds :
                /\ message_logs'[i] =
                      [message_logs[i] EXCEPT !.status = message_logs'[i].status]
                /\ message_logs'[i] # message_logs[i] =>
                      message_logs[i].message_id = last'.req.id]_vars

C10_Witness ==
    /\ IsReport(last)
    /\ last.body.status = "updated"
    /\ \E i, j \in LogsWithId(last.req.id) :
          /\ message_logs[i].user_id # message_logs[j].user_id
          /\ message_logs[i].status = last.body.new_status
          /\ message_logs[j].status # last.body.new_status

====
